---- MODULE Spec2Model ----
(***************************************************************************)
(* Invoice pipeline: InvoiceProcessorRPA (rpa/invoice_processors.py) and   *)
(* AzureOpenAIValidator / InvoiceData (ai/azure_openai_validator.py).      *)
(*                                                                         *)
(* Units.  Money is counted in cents, rates, confidences and scores in     *)
(* percent, so 5000.0 EUR is 500000, 0.22 is 22, 0.7 is 70 and the 0.01    *)
(* tolerance of the schema is one cent.  A float is a record               *)
(* [k, v]: k = "fin" with the value v, k = "inf" with the sign v, or       *)
(* k = "nan"; json.loads yields an infinity for a literal such as 1e999.   *)
(***************************************************************************)
EXTENDS Integers, Sequences, FiniteSets, TLC

VARIABLES
    files,           \* process_batch: the list of input paths
    max_workers,     \* process_batch: size of the ThreadPoolExecutor
    world,           \* what the external collaborators may answer
    fs,              \* the file system: file name -> content
    stats,           \* InvoiceProcessorRPA.stats
    pc,              \* per task: position inside process_invoice
    image_path,      \* per task: local image_path
    preprocessed_img,\* per task: local preprocessed_img
    ocr_result,      \* per task: local ocr_result (text, confidence)
    calls,           \* per task: collaborator calls of the current validate
    outcome,         \* per task: tenacity's retry_state (attempt, exception)
    validated_data,  \* per task: the dict decoded from the response
    invoice,         \* per task: the InvoiceData object
    todo,            \* per task: counters still to increment
    reg,             \* per task: value read from a counter, not yet stored
    result,          \* per task: value returned by process_invoice
    results,         \* process_batch: the list being collected
    returned,        \* process_batch has returned `results`
    extracted_fields,\* per task: local extracted_fields
    warnings         \* per task: warnings the OCR engine logged

vars == <<files, max_workers, world, extracted_fields, warnings, fs, stats, pc, image_path,
          preprocessed_img, ocr_result, calls, outcome, validated_data, invoice, todo, reg, result, results, returned>>

(***************************************************************************)
(* Bounds of the model.                                                    *)
(***************************************************************************)
MaxDocs == 2
MaxWorkers == 2
MaxAmountLen == 4

(***************************************************************************)
(* Program constants.                                                      *)
(***************************************************************************)
OCR_CONFIDENCE_THRESHOLD == 70
MAX_INVOICE_AMOUNT == 10000000
AUTO_APPROVE_THRESHOLD == 500000
VAT_RATE_DEFAULT == 22
AI_SCORE_DEFAULT == 90
AI_SCORE_THRESHOLD == 70
SIMILARITY_THRESHOLD == 60
SIMILARITY_DEFAULT == 50
STOP_AFTER_ATTEMPT == 3
WAIT_MULTIPLIER == 1
WAIT_MIN == 2
WAIT_MAX == 10

(***************************************************************************)
(* Floats.                                                                 *)
(***************************************************************************)
Fin(n) == [k |-> "fin", v |-> n]
PosInf == [k |-> "inf", v |-> 1]
NegInf == [k |-> "inf", v |-> -1]
NaN == [k |-> "nan", v |-> 0]

Sign(n) == IF n > 0 THEN 1 ELSE IF n < 0 THEN -1 ELSE 0

FNeg(a) == IF a.k = "nan" THEN NaN ELSE [k |-> a.k, v |-> -a.v]

FAdd(a, b) ==
    IF a.k = "nan" \/ b.k = "nan" THEN NaN
    ELSE IF a.k = "inf" /\ b.k = "inf" THEN (IF a.v = b.v THEN a ELSE NaN)
    ELSE IF a.k = "inf" THEN a
    ELSE IF b.k = "inf" THEN b
    ELSE Fin(a.v + b.v)

FSub(a, b) == FAdd(a, FNeg(b))

\* a * n for a finite integer factor n (inf * 0 is nan)
FScale(a, n) ==
    IF a.k = "nan" THEN NaN
    ELSE IF a.k = "inf" THEN (IF n = 0 THEN NaN ELSE [k |-> "inf", v |-> a.v * Sign(n)])
    ELSE Fin(a.v * n)

FAbs(a) ==
    IF a.k = "nan" THEN NaN
    ELSE IF a.k = "inf" THEN PosInf
    ELSE Fin(IF a.v < 0 THEN -a.v ELSE a.v)

\* a > n, a >= n, a < n, a <= n: every comparison with nan is false
FGt(a, n) == (a.k = "fin" /\ a.v > n) \/ (a.k = "inf" /\ a.v > 0)
FGe(a, n) == (a.k = "fin" /\ a.v >= n) \/ (a.k = "inf" /\ a.v > 0)
FLt(a, n) == (a.k = "fin" /\ a.v < n) \/ (a.k = "inf" /\ a.v < 0)
FLe(a, n) == (a.k = "fin" /\ a.v <= n) \/ (a.k = "inf" /\ a.v < 0)

(***************************************************************************)
(* Paths and files.                                                        *)
(***************************************************************************)
MkPath(d, s, x) == [dir |-> d, stem |-> s, suffix |-> x]

TEMP_DIR == "temp"

\* two PDFs with one stem, an image that lies where the first page of such
\* a PDF is rendered to, and an image file cv2.imread cannot decode
Paths == { MkPath("inbox", "a", ".pdf"),
           MkPath("other", "a", ".pdf"),
           MkPath(TEMP_DIR, "a", ".png"),
           MkPath("inbox", "b", ".png") }

Undecodable == { MkPath("inbox", "b", ".png") }

\* settings.TEMP_DIR / f"{file_path.stem}.png"
RenderedPath(p) == MkPath(TEMP_DIR, p.stem, ".png")

\* settings.TEMP_DIR / f"{file_path.stem}_preprocessed.png"
PreprocessedPath(p) == MkPath(TEMP_DIR, p.stem \o "_preprocessed", ".png")

FileNames == Paths \cup { RenderedPath(p) : p \in Paths }
                   \cup { PreprocessedPath(p) : p \in Paths }

\* the content of a file: the document it shows, and in which form
Content(p, form) == [doc |-> p, form |-> form]
NoPath == MkPath("", "", "")
NoFile == [doc |-> NoPath, form |-> "missing"]

(***************************************************************************)
(* Strings the schema looks into are sequences of characters.              *)
(***************************************************************************)
Digits == {"0", "1", "2", "3", "4", "5", "6", "7", "8", "9"}

\* pattern r'^\d{11}$'
IsVatId(s) == Len(s) = 11 /\ \A i \in 1..Len(s) : s[i] \in Digits

\* pattern r'^\d{4}-\d{2}-\d{2}$'
IsIsoDate(s) ==
    /\ Len(s) = 10
    /\ \A i \in {1, 2, 3, 4, 6, 7, 9, 10} : s[i] \in Digits
    /\ s[5] = "-" /\ s[8] = "-"

(***************************************************************************)
(* Notes.  A note is the text of one message: its wording, the number      *)
(* formatted into it and, for a pydantic ValidationError, the fields it    *)
(* lists.                                                                  *)
(***************************************************************************)
Note(msg, arg) == [msg |-> msg, arg |-> arg, errs |-> <<>>]
ErrorNote(errs) == [msg |-> "ValidationError", arg |-> Fin(0), errs |-> errs]

(***************************************************************************)
(* InvoiceData: the pydantic schema.  A dict d carries its values, the     *)
(* set d.absent of keys it does not have and the set d.mistyped of keys    *)
(* whose value cannot be coerced to the type of the field (null, a list    *)
(* for a number, ...).  Fields of the schema that no check reads           *)
(* (names, addresses, line_items, currency, due_date, payment_terms)       *)
(* are left out.                                                           *)
(***************************************************************************)
FieldOrder == << "invoice_number", "invoice_date", "supplier_vat", "customer_vat",
                 "subtotal", "vat_rate", "vat_amount", "total_amount",
                 "ocr_confidence", "ai_validation_score", "validation_notes",
                 "requires_manual_review" >>

HasDefault(f) == f \in {"vat_rate", "validation_notes", "requires_manual_review"}

DefaultOf(f) ==
    CASE f = "vat_rate" -> Fin(VAT_RATE_DEFAULT)
      [] f = "validation_notes" -> <<>>
      [] f = "requires_manual_review" -> FALSE

\* the value pydantic works with: the given one, or the default of the field
ValueOf(d, f) == IF f \in d.absent THEN DefaultOf(f) ELSE d[f]

\* Field(..., pattern=, gt=, ge=, le=)
Constraint(d, f) ==
    CASE f = "invoice_date" -> IsIsoDate(d[f])
      [] f = "supplier_vat" -> IsVatId(d[f])
      [] f = "customer_vat" -> IsVatId(d[f])
      [] f = "subtotal" -> FGt(d[f], 0)
      [] f = "vat_rate" -> FGe(d[f], 0) /\ FLe(d[f], 100)
      [] f = "vat_amount" -> FGe(d[f], 0)
      [] f = "total_amount" -> FGt(d[f], 0)
      [] f = "ocr_confidence" -> FGe(d[f], 0) /\ FLe(d[f], 100)
      [] f = "ai_validation_score" -> FGe(d[f], 0) /\ FLe(d[f], 100)
      [] OTHER -> TRUE

\* type and constraints of one field; a default is taken as it is
CoreOk(d, f) ==
    IF f \in d.absent THEN HasDefault(f)
    ELSE f \notin d.mistyped /\ Constraint(d, f)

\* abs(v - expected) > 0.01, with one cent written in the unit of v
Mismatch(v, expected, cent) == FGt(FAbs(FSub(v, expected)), cent)

\* validate_vat: info.data holds the fields validated before vat_amount
validate_vat(d) ==
    IF CoreOk(d, "subtotal") /\ CoreOk(d, "vat_rate")
    THEN ~Mismatch(FScale(d.vat_amount, 100),
                   FScale(d.subtotal, ValueOf(d, "vat_rate").v), 100)
    ELSE TRUE

\* a validate_total that accepts every total
validate_total_skipped(d) == TRUE

\* validate_total: vat_amount is in info.data only if it passed validate_vat
validate_total(d) ==
    IF CoreOk(d, "subtotal") /\ CoreOk(d, "vat_amount") /\ validate_vat(d)
    THEN ~Mismatch(d.total_amount, FAdd(d.subtotal, d.vat_amount), 1)
    ELSE TRUE

\* one field passes: its type, its constraints and its field_validator
FieldOk(d, f) ==
    /\ CoreOk(d, f)
    /\ f = "vat_amount" => validate_vat(d)
    /\ f = "total_amount" => validate_total(d)

\* the fields a ValidationError lists, in the order of the schema
SchemaErrors(d) == SelectSeq(FieldOrder, LAMBDA f : ~FieldOk(d, f))

\* the InvoiceData object built from a dict that passes
InvoiceRecord(d) ==
    [ invoice_number |-> d.invoice_number,
      invoice_date |-> d.invoice_date,
      supplier_vat |-> d.supplier_vat,
      customer_vat |-> d.customer_vat,
      subtotal |-> d.subtotal,
      vat_rate |-> ValueOf(d, "vat_rate"),
      vat_amount |-> d.vat_amount,
      total_amount |-> d.total_amount,
      ocr_confidence |-> d.ocr_confidence,
      ai_validation_score |-> d.ai_validation_score,
      validation_notes |-> ValueOf(d, "validation_notes"),
      requires_manual_review |-> ValueOf(d, "requires_manual_review") ]

NoInvoice == [ valid |-> FALSE ]

\* InvoiceData.model_validate(d): the object, or the ValidationError raised
model_validate(d) ==
    IF SchemaErrors(d) = <<>>
    THEN [ok |-> TRUE, value |-> InvoiceRecord(d), error |-> <<>>]
    ELSE [ok |-> FALSE, value |-> NoInvoice, error |-> SchemaErrors(d)]

(***************************************************************************)
(* AzureOpenAIValidator._apply_business_rules                              *)
(***************************************************************************)
Flagged(inv, msg, arg) ==
    [inv EXCEPT !.requires_manual_review = TRUE,
                !.validation_notes = Append(@, Note(msg, arg))]

auto_approve_rule(inv) ==
    IF FGt(inv.total_amount, AUTO_APPROVE_THRESHOLD)
    THEN Flagged(inv, "supera soglia auto-approvazione", inv.total_amount)
    ELSE inv

\* a rule that flags an amount over the limit without saying why
max_amount_rule_silent(inv) ==
    IF FGt(inv.total_amount, MAX_INVOICE_AMOUNT)
    THEN [inv EXCEPT !.requires_manual_review = TRUE]
    ELSE inv

max_amount_rule(inv) ==
    IF FGt(inv.total_amount, MAX_INVOICE_AMOUNT)
    THEN Flagged(inv, "supera limite massimo", inv.total_amount)
    ELSE inv

ocr_confidence_rule(inv) ==
    IF FLt(inv.ocr_confidence, OCR_CONFIDENCE_THRESHOLD)
    THEN Flagged(inv, "Confidence OCR bassa", inv.ocr_confidence)
    ELSE inv

\* a rule that assigns the flag instead of only setting it
ai_confidence_rule_assigns(inv) ==
    [inv EXCEPT !.requires_manual_review = FLt(inv.ai_validation_score, AI_SCORE_THRESHOLD),
                !.validation_notes =
                    IF FLt(inv.ai_validation_score, AI_SCORE_THRESHOLD)
                    THEN Append(@, Note("Confidence AI bassa", inv.ai_validation_score))
                    ELSE @]

ai_confidence_rule(inv) ==
    IF FLt(inv.ai_validation_score, AI_SCORE_THRESHOLD)
    THEN Flagged(inv, "Confidence AI bassa", inv.ai_validation_score)
    ELSE inv

apply_business_rules(inv) ==
    ai_confidence_rule(ocr_confidence_rule(max_amount_rule(auto_approve_rule(inv))))

(***************************************************************************)
(* InvoiceOCREngine.extract_invoice_fields.  An OCR text is a sequence of  *)
(* tokens: a single character, or one occurrence of a keyword of the       *)
(* patterns (the alternatives of a keyword group match case-insensitively  *)
(* and are not told apart).  A captured value is a sequence of characters. *)
(***************************************************************************)
KwVat == "p.iva"            \* p\.?\s*iva | partita\s+iva | vat
KwTaxId == "tax id"         \* tax\s+id | fiscal\s+code
KwAmount == "totale"        \* totale | total | importo
KwNetAmount == "net amount" \* grand\s+total | net\s+amount: `grand total` is
                            \* matched by `total` of the first pattern before

Whitespace == {" ", "\n"}                 \* \s
ColonOrSpace == Whitespace \cup {":"}     \* [:\s]
DateSeparators == {"/", "-", "."}         \* [/\-\.]
AmountChars == Digits \cup {".", ","}     \* [\d\.,]

NoMatch == [ok |-> FALSE, value |-> <<>>]
Match(value) == [ok |-> TRUE, value |-> value]

\* the number of tokens of text from position p on that lie in class
RECURSIVE Run(_, _, _)
Run(text, p, class) ==
    IF p \in 1..Len(text) /\ text[p] \in class
    THEN 1 + Run(text, p + 1, class)
    ELSE 0

\* keyword [:\s]* (\d{11}), tried at position p
VatAt(text, p, keyword) ==
    LET q == p + 1 + Run(text, p + 1, ColonOrSpace)
    IN IF text[p] = keyword /\ Run(text, q, Digits) >= 11
       THEN Match(SubSeq(text, q, q + 10))
       ELSE NoMatch

\* a first pattern that captures the whole run of digits
VatPattern1_any_length(text, p) ==
    LET q == p + 1 + Run(text, p + 1, ColonOrSpace)
    IN IF text[p] = KwVat /\ Run(text, q, Digits) >= 1
       THEN Match(SubSeq(text, q, q + Run(text, q, Digits) - 1))
       ELSE NoMatch

\* r'(?:p\.?\s*iva|partita\s+iva|vat)[:\s]*(\d{11})'
VatPattern1(text, p) == VatAt(text, p, KwVat)

\* r'(?:tax\s+id|fiscal\s+code)[:\s]*(\d{11})'
VatPattern2(text, p) == VatAt(text, p, KwTaxId)

\* keyword [:\s]+ €? \s* ([\d\.,]+), tried at position p
AmountAt(text, p, keyword) ==
    LET seps == Run(text, p + 1, ColonOrSpace)
        q == p + 1 + seps
        euro == IF q <= Len(text) /\ text[q] = "€" THEN 1 ELSE 0
        r == q + euro + Run(text, q + euro, Whitespace)
        n == Run(text, r, AmountChars)
    IN IF text[p] = keyword /\ seps >= 1 /\ n >= 1
       THEN Match(SubSeq(text, r, r + n - 1))
       ELSE NoMatch

\* r'(?:totale|total|importo)[:\s]+€?\s*([\d\.,]+)'
AmountPattern1(text, p) == AmountAt(text, p, KwAmount)

\* r'(?:grand\s+total|net\s+amount)[:\s]+€?\s*([\d\.,]+)'
AmountPattern2(text, p) == AmountAt(text, p, KwNetAmount)

\* digits{lo1,hi1} sep digits{1,2} sep digits{lo3,hi3} at position p: a run
\* of digits before a separator has to be taken whole, the last one is taken
\* as far as it goes
DateAt(text, p, lo1, hi1, lo3, hi3) ==
    LET n1 == Run(text, p, Digits)
        s1 == p + n1
        n2 == Run(text, s1 + 1, Digits)
        s2 == s1 + 1 + n2
        n3 == Run(text, s2 + 1, Digits)
        take == IF n3 < hi3 THEN n3 ELSE hi3
    IN IF /\ n1 >= lo1 /\ n1 <= hi1
          /\ s1 <= Len(text) /\ text[s1] \in DateSeparators
          /\ n2 >= 1 /\ n2 <= 2
          /\ s2 <= Len(text) /\ text[s2] \in DateSeparators
          /\ n3 >= lo3
       THEN Match(SubSeq(text, p, s2 + take))
       ELSE NoMatch

\* r'(\d{1,2}[/\-\.]\d{1,2}[/\-\.]\d{2,4})'
DatePattern1(text, p) == DateAt(text, p, 1, 2, 2, 4)

\* r'(\d{4}[/\-\.]\d{1,2}[/\-\.]\d{1,2})'
DatePattern2(text, p) == DateAt(text, p, 4, 4, 1, 2)

\* self.patterns: the patterns of a field type, in the order they are tried
patterns ==
    [ date |-> <<"DatePattern1", "DatePattern2">>,
      vat_number |-> <<"VatPattern1", "VatPattern2">>,
      amount |-> <<"AmountPattern1", "AmountPattern2">> ]

\* the match of a pattern tried at position p of text
MatchAt(pattern, text, p) ==
    CASE pattern = "DatePattern1" -> DatePattern1(text, p)
      [] pattern = "DatePattern2" -> DatePattern2(text, p)
      [] pattern = "VatPattern1" -> VatPattern1(text, p)
      [] pattern = "VatPattern2" -> VatPattern2(text, p)
      [] pattern = "AmountPattern1" -> AmountPattern1(text, p)
      [] pattern = "AmountPattern2" -> AmountPattern2(text, p)

\* re.search(pattern, text): the match at the leftmost position that has one
re_search(pattern, text) ==
    LET hits == { p \in 1..Len(text) : MatchAt(pattern, text, p).ok }
    IN IF hits = {} THEN NoMatch
       ELSE CHOOSE m \in { MatchAt(pattern, text, p) :
                              p \in { h \in hits : \A q \in hits : h <= q } } : TRUE

\* str.strip()
RECURSIVE strip(_)
strip(s) ==
    IF s = <<>> THEN s
    ELSE IF Head(s) \in Whitespace THEN strip(Tail(s))
    ELSE IF s[Len(s)] \in Whitespace THEN strip(SubSeq(s, 1, Len(s) - 1))
    ELSE s

\* InvoiceField: confidence and bbox, which nothing reads, are left out
InvoiceField(value, field_type) == [value |-> value, field_type |-> field_type]

\* _extract_field: the first of the patterns that matches, or None
extract_field(text, field_patterns) ==
    LET matching == { k \in 1..Len(field_patterns) : re_search(field_patterns[k], text).ok }
    IN IF matching = {} THEN NoMatch
       ELSE CHOOSE m \in { re_search(field_patterns[k], text) :
                              k \in { h \in matching : \A j \in matching : h <= j } } : TRUE

\* the first loop of extract_invoice_fields: field type -> InvoiceField, for
\* the field types the post-processing looks at
ExtractedFields(text) ==
    [ f \in { g \in DOMAIN patterns : extract_field(text, patterns[g]).ok } |->
        InvoiceField(strip(extract_field(text, patterns[f]).value), f) ]

(***************************************************************************)
(* Numbers and their decimal digits.                                       *)
(***************************************************************************)
DigitString == <<"0", "1", "2", "3", "4", "5", "6", "7", "8", "9">>

\* int(c) for one digit
DigitValue(c) == (CHOOSE k \in 1..10 : DigitString[k] = c) - 1

\* int(s) for a sequence of digits, 0 for the empty one
RECURSIVE StrToInt(_)
StrToInt(s) ==
    IF s = <<>> THEN 0
    ELSE 10 * StrToInt(SubSeq(s, 1, Len(s) - 1)) + DigitValue(s[Len(s)])

\* str(n) for n >= 0
RECURSIVE IntToStr(_)
IntToStr(n) ==
    IF n < 10 THEN <<DigitString[n + 1]>>
    ELSE Append(IntToStr(n \div 10), DigitString[(n % 10) + 1])

\* n as at least `width` digits, padded with zeros
ZeroPad(n, width) ==
    IF Len(IntToStr(n)) >= width THEN IntToStr(n)
    ELSE [k \in 1..(width - Len(IntToStr(n))) |-> "0"] \o IntToStr(n)

(***************************************************************************)
(* _normalize_date: datetime.strptime with five formats, then strftime.    *)
(***************************************************************************)
\* '%d/%m/%Y', '%d-%m-%Y', '%d.%m.%Y', '%Y-%m-%d', '%d/%m/%y'
DateFormats ==
    << [sep |-> "/", year_first |-> FALSE, year_digits |-> 4],
       [sep |-> "-", year_first |-> FALSE, year_digits |-> 4],
       [sep |-> ".", year_first |-> FALSE, year_digits |-> 4],
       [sep |-> "-", year_first |-> TRUE, year_digits |-> 4],
       [sep |-> "/", year_first |-> FALSE, year_digits |-> 2] >>

IsLeap(y) == y % 4 = 0 /\ (y % 100 # 0 \/ y % 400 = 0)

DaysIn(m, y) ==
    IF m = 2 THEN (IF IsLeap(y) THEN 29 ELSE 28)
    ELSE IF m \in {4, 6, 9, 11} THEN 30 ELSE 31

AllDigits(s) == \A k \in 1..Len(s) : s[k] \in Digits

\* %d and %m: one or two digits, a value from 1 to 31 and from 1 to 12
DayOrMonth(s, max) ==
    Len(s) \in {1, 2} /\ AllDigits(s) /\ StrToInt(s) >= 1 /\ StrToInt(s) <= max

\* %Y: four digits; %y: two digits, 69-99 in 1969-1999, 00-68 in 2000-2068
YearOf(s, digits) ==
    IF digits = 4 THEN StrToInt(s)
    ELSE IF StrToInt(s) >= 69 THEN 1900 + StrToInt(s) ELSE 2000 + StrToInt(s)

NoDate == [ok |-> FALSE, y |-> 0, m |-> 0, d |-> 0]

\* datetime.strptime(s, fmt): the date, or ValueError
strptime(s, fmt) ==
    LET at == { k \in 1..Len(s) : s[k] = fmt.sep }
        p1 == CHOOSE k \in at : \A j \in at : k <= j
        p2 == CHOOSE k \in at : \A j \in at : j <= k
        a == SubSeq(s, 1, p1 - 1)
        b == SubSeq(s, p1 + 1, p2 - 1)
        c == SubSeq(s, p2 + 1, Len(s))
        ys == IF fmt.year_first THEN a ELSE c
        ds == IF fmt.year_first THEN c ELSE a
    IN IF /\ Cardinality(at) = 2
          /\ Len(ys) = fmt.year_digits /\ AllDigits(ys)
          /\ DayOrMonth(b, 12) /\ DayOrMonth(ds, 31)
          /\ YearOf(ys, fmt.year_digits) >= 1
          /\ StrToInt(ds) <= DaysIn(StrToInt(b), YearOf(ys, fmt.year_digits))
       THEN [ok |-> TRUE, y |-> YearOf(ys, fmt.year_digits),
             m |-> StrToInt(b), d |-> StrToInt(ds)]
       ELSE NoDate

\* dt.strftime('%Y-%m-%d')
strftime(dt) == ZeroPad(dt.y, 4) \o <<"-">> \o ZeroPad(dt.m, 2) \o <<"-">> \o ZeroPad(dt.d, 2)

\* _normalize_date: the first format that parses, or None
normalize_date(date_str) ==
    LET parsing == { k \in 1..Len(DateFormats) : strptime(date_str, DateFormats[k]).ok }
    IN IF parsing = {} THEN NoMatch
       ELSE CHOOSE m \in { Match(strftime(dt)) :
                              dt \in { strptime(date_str, DateFormats[k]) :
                                  k \in { h \in parsing : \A j \in parsing : h <= j } } } : TRUE

(***************************************************************************)
(* The amount: str.replace twice, float(), f"{x:.2f}".                     *)
(***************************************************************************)
\* an amount cleaning that leaves the dots where they are
clean_amount_keeps_dots(amount_str) ==
    [k \in 1..Len(amount_str) |-> IF amount_str[k] = "," THEN "." ELSE amount_str[k]]

\* amount_str.replace('.', '').replace(',', '.')
clean_amount(amount_str) ==
    LET undotted == SelectSeq(amount_str, LAMBDA c : c # ".")
    IN [k \in 1..Len(undotted) |-> IF undotted[k] = "," THEN "." ELSE undotted[k]]

\* float(s) accepts s, a string of digits and dots: one dot at most, one
\* digit at least
float_accepts(s) ==
    /\ Cardinality({ k \in 1..Len(s) : s[k] = "." }) <= 1
    /\ \E k \in 1..Len(s) : s[k] \in Digits

\* f"{float(s):.2f}" for a string float() accepts: the nearest number with
\* two decimals.  A value exactly half way between two of them is decided by
\* the binary value of the float, which the model does not have: it has no
\* result for such a string.
format_2f(s) ==
    LET dots == { k \in 1..Len(s) : s[k] = "." }
        dot == IF dots = {} THEN Len(s) + 1 ELSE CHOOSE k \in dots : TRUE
        whole == SubSeq(s, 1, dot - 1)
        frac == SubSeq(s, dot + 1, Len(s)) \o <<"0", "0", "0">>
        rest == SubSeq(frac, 3, Len(frac))
        half == <<"5">> \o [k \in 1..(Len(rest) - 1) |-> "0"]
        floor == 100 * StrToInt(whole) + StrToInt(SubSeq(frac, 1, 2))
        cents == IF StrToInt(rest) < StrToInt(half) THEN floor
                 ELSE IF StrToInt(rest) > StrToInt(half) THEN floor + 1
                 ELSE CHOOSE n \in {} : TRUE
    IN IntToStr(cents \div 100) \o <<".">> \o ZeroPad(cents % 100, 2)

(***************************************************************************)
(* _post_process_fields: the fields, and the warnings it logs.             *)
(***************************************************************************)
Warning(event, value) == [event |-> event, value |-> value]

\* re.sub(r'[^\d]', '', vat); a value of another length than 11 stays as it
\* was matched
post_process_vat(field) ==
    LET vat == SelectSeq(field.value, LAMBDA c : c \in Digits)
    IN IF Len(vat) = 11
       THEN [field |-> [field EXCEPT !.value = vat], warnings |-> <<>>]
       ELSE [field |-> field, warnings |-> <<Warning("P.IVA non valida", vat)>>]

\* a date no format parses stays as it was matched, and nothing is logged
post_process_date(field) ==
    IF normalize_date(field.value).ok
    THEN [field |-> [field EXCEPT !.value = normalize_date(field.value).value],
          warnings |-> <<>>]
    ELSE [field |-> field, warnings |-> <<>>]

\* an amount float() rejects stays as it was matched
post_process_amount(field) ==
    CHOOSE done \in
        { IF float_accepts(amount_clean)
          THEN [field |-> [field EXCEPT !.value = format_2f(amount_clean)],
                warnings |-> <<>>]
          ELSE [field |-> field,
                warnings |-> <<Warning("Importo non valido", amount_clean)>>] :
          amount_clean \in {clean_amount(field.value)} } : TRUE

post_process_field(field) ==
    CASE field.field_type = "vat_number" -> post_process_vat(field)
      [] field.field_type = "date" -> post_process_date(field)
      [] field.field_type = "amount" -> post_process_amount(field)

post_process_fields(fields) ==
    [ fields |-> [f \in DOMAIN fields |-> post_process_field(fields[f]).field],
      warnings |->
          (IF "vat_number" \in DOMAIN fields
           THEN post_process_field(fields["vat_number"]).warnings ELSE <<>>)
          \o (IF "date" \in DOMAIN fields
              THEN post_process_field(fields["date"]).warnings ELSE <<>>)
          \o (IF "amount" \in DOMAIN fields
              THEN post_process_field(fields["amount"]).warnings ELSE <<>>) ]

\* extract_invoice_fields(text, word_data)
extract_invoice_fields(text) ==
    CHOOSE done \in { post_process_fields(fields) : fields \in {ExtractedFields(text)} } : TRUE

(***************************************************************************)
(* What the collaborators can answer.  A response of the structuring       *)
(* collaborator is the text of its message: json says whether json.loads   *)
(* decodes it, the other fields are the decoded dict.                      *)
(***************************************************************************)
VatOk == <<"0", "1", "2", "3", "4", "5", "6", "7", "8", "9", "0">>
VatShort == <<"0", "1", "2", "3", "4", "5", "6", "7", "8", "9">>
VatLetters == <<"I", "T", "2", "3", "4", "5", "6", "7", "8", "9", "0">>
DateIso == <<"2", "0", "2", "4", "-", "1", "2", "-", "3", "1">>
DateItalian == <<"3", "1", "/", "1", "2", "/", "2", "0", "2", "4">>

AiNote == Note("discrepanza segnalata dal modello", Fin(0))

RClean ==
    [ json |-> TRUE, absent |-> {}, mistyped |-> {},
      invoice_number |-> "2024/001", invoice_date |-> DateIso,
      supplier_vat |-> VatOk, customer_vat |-> VatOk,
      subtotal |-> Fin(100000), vat_rate |-> Fin(22),
      vat_amount |-> Fin(22000), total_amount |-> Fin(122000),
      ocr_confidence |-> Fin(99), ai_validation_score |-> Fin(99),
      confidence_score |-> Fin(95),
      validation_notes |-> <<>>, requires_manual_review |-> FALSE ]

RDefaults == [RClean EXCEPT !.absent = {"vat_rate", "confidence_score",
                  "validation_notes", "requires_manual_review",
                  "ocr_confidence", "ai_validation_score"}]
RFlagged == [RClean EXCEPT !.requires_manual_review = TRUE,
                           !.validation_notes = <<AiNote>>]
RLowScore == [RClean EXCEPT !.confidence_score = Fin(50)]
RBig == [RClean EXCEPT !.subtotal = Fin(500000), !.vat_amount = Fin(110000),
                       !.total_amount = Fin(610000)]
RHuge == [RClean EXCEPT !.subtotal = Fin(10000000), !.vat_amount = Fin(2200000),
                        !.total_amount = Fin(12200000)]
RCentOff == [RClean EXCEPT !.total_amount = Fin(122001)]
RBadTotal == [RClean EXCEPT !.total_amount = Fin(122002),
                            !.validation_notes = <<AiNote>>]
RBadVat == [RClean EXCEPT !.vat_amount = Fin(25000), !.total_amount = Fin(125000)]
RBadVatId == [RClean EXCEPT !.supplier_vat = VatShort]
RBadCustomer == [RClean EXCEPT !.customer_vat = VatLetters]
RBadDate == [RClean EXCEPT !.invoice_date = DateItalian]
RNoNumber == [RClean EXCEPT !.absent = {"invoice_number"}]
RNegative == [RClean EXCEPT !.subtotal = Fin(-100000), !.vat_amount = Fin(0),
                            !.total_amount = Fin(-100000)]
RInfinite == [RClean EXCEPT !.subtotal = PosInf, !.vat_amount = PosInf,
                            !.total_amount = PosInf]
RNotesNotAList == [RClean EXCEPT !.mistyped = {"validation_notes"}]
RFlagNotABool == [RBig EXCEPT !.mistyped = {"requires_manual_review"}]
RNotedFlagNotABool == [RFlagged EXCEPT !.mistyped = {"requires_manual_review"}]
RScoreNull == [RClean EXCEPT !.mistyped = {"confidence_score"}]
RMalformed == [RClean EXCEPT !.json = FALSE]

Responses == { RClean, RDefaults, RFlagged, RLowScore, RBig, RHuge, RCentOff,
               RBadTotal, RBadVat, RBadVatId, RBadCustomer, RBadDate, RNoNumber,
               RNegative, RInfinite, RNotesNotAList, RFlagNotABool, RNotedFlagNotABool,
               RScoreNull, RMalformed }

\* OCR texts.  NDigits(n): the n digits 1 2 3 ... 9 0 1 ...
NDigits(n) == [k \in 1..n |-> DigitString[(k % 10) + 1]]

PlainText == <<KwAmount, ":", " ", "1", "2", "2", "0", ",", "0", "0">>

\* a keyword, nothing or ": " after it, and 10, 11 or 12 digits; a text
\* whose first keyword has too few digits; a text with no keyword
VatTexts ==
    { <<kw>> \o sep \o NDigits(n) :
          kw \in {KwVat, KwTaxId}, sep \in {<<>>, <<":", " ">>}, n \in 10..12 }
    \cup { <<KwVat, " ">> \o NDigits(10) \o <<"\n", KwVat, ":">> \o NDigits(11),
           <<KwTaxId, " ">> \o NDigits(11) \o <<" ", KwVat, " ">> \o NDigits(12),
           NDigits(11) }

DateTexts ==
    { <<"3", "1", "/", "1", "2", "/", "2", "0", "2", "4">>,
      <<"3", "1", "-", "1", "2", "-", "2", "0", "2", "4">>,
      <<"3", "1", ".", "1", "2", ".", "2", "0", "2", "4">>,
      <<"3", "1", "/", "1", "2", "/", "2", "4">>,
      <<"3", "1", "/", "1", "2", "/", "9", "9">>,
      <<"1", "/", "2", "/", "2", "0", "2", "4">>,
      <<"2", "0", "2", "4", "-", "1", "2", "-", "3", "1">>,
      <<"2", "0", "2", "4", "-", "1", "2", "-", "3">>,
      <<"2", "0", "2", "4", "/", "1", "2", "/", "3">>,
      <<"2", "9", "/", "0", "2", "/", "2", "0", "2", "4">>,
      <<"2", "9", "/", "0", "2", "/", "2", "0", "2", "3">>,
      <<"9", "9", "/", "9", "9", "/", "2", "0", "2", "4">>,
      <<"3", "1", "/", "1", "2", "-", "2", "0", "2", "4">>,
      <<"3", "1", "/", "1", "2", "/", "2", "0", "2", "4", "5">>,
      <<"n", "o", "t", "-", "a", "-", "d", "a", "t", "e">> }

\* the strings the amount pattern captures, up to MaxAmountLen characters,
\* and the longer ones of the documentation
AmountStrings ==
    UNION { [1..n -> {"1", "2", ".", ","}] : n \in 1..MaxAmountLen }
    \cup { <<"1", ".", "2", "3", "4", ",", "5", "6">>,
           <<"1", "0", "0">>,
           <<"1", ",", "2", ",", "3">>,
           <<"0", "0", "7", ",", "5">> }

AmountTexts ==
    { <<KwAmount, ":", " ">> \o s : s \in AmountStrings }
    \cup { <<KwNetAmount, ":", " ", "€", " ", "1", ".", "2", "3", "4", ",", "5", "6">>,
           <<KwAmount, "1", "0", "0">>,
           <<KwVat, ":">> \o NDigits(11) \o
               <<"\n", "3", "1", "/", "1", "2", "/", "2", "0", "2", "4", "\n",
                 KwAmount, " ", "€", "1", "0", "0">> }

FieldTexts == VatTexts \cup DateTexts \cup AmountTexts

\* a reply to the similarity prompt: a number, "nan", or no number at all
SimNumber(n) == [k |-> "number", v |-> n]
SimNaN == [k |-> "nan", v |-> 0]
SimText == [k |-> "text", v |-> 0]

\* one document at a time, every answer
PipelineWorld ==
    [ responses |-> Responses,
      confidences |-> {Fin(50), Fin(85)},
      replies |-> {SimNumber(90), SimNumber(30), SimNumber(150), SimNaN, SimText},
      hangs |-> FALSE,
      texts |-> {PlainText} ]

\* a batch: the answers that make the stages succeed, fall back or fail
BatchWorld ==
    [ responses |-> {RClean, RBadTotal},
      confidences |-> {Fin(85)},
      replies |-> {SimNumber(90)},
      hangs |-> FALSE,
      texts |-> {PlainText} ]

\* one document, every OCR text, and collaborators that answer well
FieldsWorld ==
    [ responses |-> {RClean},
      confidences |-> {Fin(85)},
      replies |-> {SimNumber(90)},
      hangs |-> FALSE,
      texts |-> FieldTexts ]

\* a batch in which pdftoppm or tesseract, both run without a timeout, may
\* never return
TimeoutWorld ==
    [ responses |-> {RClean},
      confidences |-> {Fin(85)},
      replies |-> {SimNumber(90)},
      hangs |-> TRUE,
      texts |-> {PlainText} ]

(***************************************************************************)
(* The state after construction and after process_batch has submitted      *)
(* every file to the executor.                                             *)
(***************************************************************************)
Tasks == 1..Len(files)

NoData == [json |-> FALSE]
NoOcr == [text |-> NoPath, chars |-> <<>>, confidence |-> Fin(0)]
NoResult == [status |-> "none"]
NoOutcome == [attempt |-> 0, failed |-> FALSE, type |-> "", msg |-> "",
              upcoming_sleep |-> 0]

InitWith(batches, workers, w) ==
    /\ files \in batches
    /\ max_workers \in workers
    /\ world = w
    /\ fs = [f \in FileNames |->
               IF \E i \in 1..Len(files) : files[i] = f
               THEN Content(f, "original") ELSE NoFile]
    /\ stats = [processed |-> 0, successful |-> 0, failed |-> 0, manual_review |-> 0]
    /\ pc = [i \in 1..Len(files) |-> "queued"]
    /\ image_path = [i \in 1..Len(files) |-> NoPath]
    /\ preprocessed_img = [i \in 1..Len(files) |-> NoFile]
    /\ ocr_result = [i \in 1..Len(files) |-> NoOcr]
    /\ calls = [i \in 1..Len(files) |-> 0]
    /\ outcome = [i \in 1..Len(files) |-> NoOutcome]
    /\ validated_data = [i \in 1..Len(files) |-> NoData]
    /\ invoice = [i \in 1..Len(files) |-> NoInvoice]
    /\ todo = [i \in 1..Len(files) |-> <<>>]
    /\ reg = [i \in 1..Len(files) |-> 0]
    /\ result = [i \in 1..Len(files) |-> NoResult]
    /\ results = <<>>
    /\ returned = FALSE
    /\ extracted_fields = [i \in 1..Len(files) |-> <<>>]
    /\ warnings = [i \in 1..Len(files) |-> <<>>]

Batches == UNION { [1..n -> Paths] : n \in 1..MaxDocs }

\* a batch of up to MaxDocs files on up to MaxWorkers workers
Init == InitWith(Batches, 1..MaxWorkers, BatchWorld)

\* one document, with every answer of the collaborators
InitPipeline == InitWith([1..1 -> Paths], {1}, PipelineWorld)

\* one document, with every OCR text
InitFields == InitWith([1..1 -> {MkPath("inbox", "a", ".pdf")}], {1}, FieldsWorld)

\* a batch of MaxDocs files whose external calls may never return
InitTimeout == InitWith([1..MaxDocs -> Paths], 1..MaxWorkers, TimeoutWorld)

(***************************************************************************)
(* ThreadPoolExecutor: a free worker takes the oldest submitted task.      *)
(***************************************************************************)
Running == { i \in Tasks : pc[i] \notin {"queued", "done", "collected"} }

Start(i) ==
    /\ pc[i] = "queued"
    /\ \A j \in Tasks : j < i => pc[j] # "queued"
    /\ Cardinality(Running) < max_workers
    /\ pc' = [pc EXCEPT ![i] = "prepare"]
    /\ UNCHANGED <<files, max_workers, world, extracted_fields, warnings, fs, stats, image_path,
                   preprocessed_img, ocr_result, calls, outcome, validated_data, invoice,
                   todo, reg, result, results, returned>>

(***************************************************************************)
(* process_invoice.  The counters are incremented with `+= 1` on a dict    *)
(* entry and no lock: a read and a later write.                            *)
(***************************************************************************)
Error(type, msg) == [type |-> type, msg |-> msg]

\* the dict returned by the except branch
ErrorResult(e, p) == [status |-> "error", error |-> e, file_path |-> p]

\* a try branch that reports a record needing review as a failure
SuccessResult_rejects_review(inv, conf, sim, p) ==
    IF inv.requires_manual_review
    THEN [ status |-> "error", error |-> Error("ManualReview", "requires manual review"),
           file_path |-> p ]
    ELSE [ status |-> "success", invoice_data |-> inv, ocr_confidence |-> conf,
           semantic_similarity |-> sim,
           requires_manual_review |-> inv.requires_manual_review, file_path |-> p ]

\* the dict returned by the try branch
SuccessResult(inv, conf, sim, p) ==
    [ status |-> "success", invoice_data |-> inv, ocr_confidence |-> conf,
      semantic_similarity |-> sim,
      requires_manual_review |-> inv.requires_manual_review, file_path |-> p ]

\* an except branch that counts the document twice
FailureCounters_counts_twice == <<"processed", "processed", "failed">>

\* the counters the except branch increments
FailureCounters == <<"processed", "failed">>

\* a try branch that counts every record it returns as successful
SuccessCounters_ignores_review(inv) == <<"processed", "successful">>

\* the counters the try branch increments
SuccessCounters(inv) ==
    <<"processed", IF inv.requires_manual_review THEN "manual_review" ELSE "successful">>

\* a handler that records the error and lets the pipeline go on with the
\* structuring call
Except_goes_on(i, e) ==
    /\ pc' = [pc EXCEPT ![i] = "call"]
    /\ todo' = [todo EXCEPT ![i] = FailureCounters]
    /\ result' = [result EXCEPT ![i] = ErrorResult(e, files[i])]

\* except Exception as e: the handler up to its counters
Except(i, e) ==
    /\ pc' = [pc EXCEPT ![i] = "load"]
    /\ todo' = [todo EXCEPT ![i] = FailureCounters]
    /\ result' = [result EXCEPT ![i] = ErrorResult(e, files[i])]

\* a call made with no timeout= does not return: the worker thread stays in
\* it, and nothing in process_invoice or process_batch cancels it
NeverReturns(i) ==
    /\ world.hangs
    /\ pc' = [pc EXCEPT ![i] = "blocked"]
    /\ UNCHANGED <<todo, result>>

\* _prepare_image: a PDF is rendered to TEMP_DIR/<stem>.png
PrepareImage(i) ==
    /\ pc[i] = "prepare"
    /\ IF files[i].suffix = ".pdf"
       THEN \/ \E ok \in BOOLEAN :
                IF ok
                THEN /\ fs' = [fs EXCEPT ![RenderedPath(files[i])] =
                                  Content(fs[files[i]].doc, "rendered")]
                     /\ image_path' = [image_path EXCEPT ![i] = RenderedPath(files[i])]
                     /\ pc' = [pc EXCEPT ![i] = "normalize"]
                     /\ UNCHANGED <<todo, result>>
                ELSE /\ Except(i, Error("PDFPageCountError", "Unable to get page count"))
                     /\ UNCHANGED <<fs, image_path>>
            \/ /\ NeverReturns(i)
               /\ UNCHANGED <<fs, image_path>>
       ELSE /\ image_path' = [image_path EXCEPT ![i] = files[i]]
            /\ pc' = [pc EXCEPT ![i] = "normalize"]
            /\ UNCHANGED <<fs, todo, result>>
    /\ UNCHANGED <<outcome, files, max_workers, world, extracted_fields, warnings, stats, preprocessed_img, ocr_result,
                   calls, validated_data, invoice, reg, results, returned>>

\* preprocess_invoice(image_path, TEMP_DIR/<stem>_preprocessed.png): cv2.imread
\* returns None for a file it cannot decode
PreprocessInvoice(i) ==
    /\ pc[i] = "normalize"
    /\ IF fs[image_path[i]] # NoFile /\ fs[image_path[i]].doc \notin Undecodable
       THEN /\ preprocessed_img' = [preprocessed_img EXCEPT ![i] =
                  Content(fs[image_path[i]].doc, "preprocessed")]
            /\ fs' = [fs EXCEPT ![PreprocessedPath(files[i])] =
                         Content(fs[image_path[i]].doc, "preprocessed")]
            /\ pc' = [pc EXCEPT ![i] = "ocr"]
            /\ UNCHANGED <<todo, result>>
       ELSE /\ Except(i, Error("ValueError", "Impossibile caricare immagine"))
            /\ UNCHANGED <<fs, preprocessed_img>>
    /\ UNCHANGED <<outcome, files, max_workers, world, extracted_fields, warnings, stats, image_path, ocr_result, calls,
                   validated_data, invoice, reg, results, returned>>

\* ocr_engine.extract_text(preprocessed_img)
ExtractText(i) ==
    /\ pc[i] = "ocr"
    /\ \/ \E c \in world.confidences, chars \in world.texts :
            /\ ocr_result' = [ocr_result EXCEPT ![i] =
                   [text |-> preprocessed_img[i].doc, chars |-> chars,
                    confidence |-> c]]
            /\ pc' = [pc EXCEPT ![i] = "extract"]
            /\ UNCHANGED <<todo, result>>
       \/ /\ Except(i, Error("TesseractError", "ocr engine failed"))
          /\ UNCHANGED ocr_result
       \/ /\ NeverReturns(i)
          /\ UNCHANGED ocr_result
    /\ UNCHANGED <<outcome, files, max_workers, world, extracted_fields, warnings, fs, stats, image_path,
                   preprocessed_img, calls, validated_data, invoice, reg, results,
                   returned>>

\* ocr_engine.extract_invoice_fields(ocr_result.text, ocr_result.word_data)
ExtractInvoiceFields(i) ==
    /\ pc[i] = "extract"
    /\ extracted_fields' = [extracted_fields EXCEPT ![i] =
           extract_invoice_fields(ocr_result[i].chars).fields]
    /\ warnings' = [warnings EXCEPT ![i] =
           extract_invoice_fields(ocr_result[i].chars).warnings]
    /\ pc' = [pc EXCEPT ![i] = "call"]
    /\ UNCHANGED <<files, max_workers, world, fs, stats, image_path,
                   preprocessed_img, ocr_result, calls, outcome, validated_data, invoice,
                   todo, reg, result, results, returned>>

(***************************************************************************)
(* validate_and_structure_invoice under                                    *)
(* @retry(stop=stop_after_attempt(3), wait=wait_exponential(...)).         *)
(* No retry= is given: tenacity retries on every exception the function    *)
(* raises; no reraise= is given: the last failure is raised as RetryError. *)
(***************************************************************************)
\* a stop condition that lets one more attempt through
stop_one_late(attempt) == attempt > STOP_AFTER_ATTEMPT

\* stop_after_attempt(3)
stop(attempt) == attempt >= STOP_AFTER_ATTEMPT

\* wait_exponential(multiplier=1, min=2, max=10), in seconds, after the
\* failed attempt number `attempt`: tenacity computes
\* max(min, min(multiplier * 2 ** (attempt - 1), max))
wait_exponential(attempt) ==
    LET exp == WAIT_MULTIPLIER * 2 ^ (attempt - 1)
        capped == IF exp < WAIT_MAX THEN exp ELSE WAIT_MAX
    IN IF capped > WAIT_MIN THEN capped ELSE WAIT_MIN

\* str(RetryError) names the class of the last exception only
RetryError(e) == Error("RetryError", e.type)

\* attempt number n of task i raised e inside the decorated function: stop,
\* or sleep wait_exponential(n) seconds and call again
AttemptFailed(i, n, e) ==
    /\ outcome' = [outcome EXCEPT ![i] =
           [attempt |-> n, failed |-> TRUE, type |-> e.type, msg |-> e.msg,
            upcoming_sleep |-> IF stop(n) THEN 0 ELSE wait_exponential(n)]]
    /\ IF stop(n)
       THEN Except(i, RetryError(e))
       ELSE /\ pc' = [pc EXCEPT ![i] = "call"]
            /\ UNCHANGED <<todo, result>>

\* a retry wrapper that marks every record it needed more than one attempt for
retry_result_marks_retries(value, attempt) ==
    IF attempt > 1
    THEN [value EXCEPT !.requires_manual_review = TRUE,
                       !.validation_notes = Append(@, Note("retried", Fin(attempt)))]
    ELSE value

\* what the decorated function hands back after `attempt` attempts: the
\* value the successful attempt returned
retry_result(value, attempt) == value

\* a stamping that keeps the ocr_confidence of the response when it has one
Stamp_keeps_response(d, conf) ==
    [d EXCEPT !.ocr_confidence = IF "ocr_confidence" \in d.absent THEN conf ELSE @,
              !.ai_validation_score =
                  IF "confidence_score" \in d.absent
                  THEN Fin(AI_SCORE_DEFAULT) ELSE d.confidence_score,
              !.absent = @ \ {"ocr_confidence", "ai_validation_score"},
              !.mistyped = (@ \ {"ocr_confidence", "ai_validation_score"})
                  \cup (IF "confidence_score" \in d.mistyped /\
                           "confidence_score" \notin d.absent
                        THEN {"ai_validation_score"} ELSE {})]

\* validated_data['ocr_confidence'] = ..., validated_data['ai_validation_score'] = ...
Stamp(d, conf) ==
    [d EXCEPT !.ocr_confidence = conf,
              !.ai_validation_score =
                  IF "confidence_score" \in d.absent
                  THEN Fin(AI_SCORE_DEFAULT) ELSE d.confidence_score,
              !.absent = @ \ {"ocr_confidence", "ai_validation_score"},
              !.mistyped = (@ \ {"ocr_confidence", "ai_validation_score"})
                  \cup (IF "confidence_score" \in d.mistyped /\
                           "confidence_score" \notin d.absent
                        THEN {"ai_validation_score"} ELSE {})]

\* client.chat.completions.create, json.loads and the two metadata fields
CallCollaborator(i) ==
    /\ pc[i] = "call"
    /\ calls' = [calls EXCEPT ![i] = @ + 1]
    /\ \/ /\ AttemptFailed(i, calls[i] + 1, Error("APIConnectionError", "Connection error."))
          /\ UNCHANGED validated_data
       \/ \E r \in world.responses :
            IF r.json
            THEN /\ validated_data' = [validated_data EXCEPT ![i] =
                        Stamp(r, ocr_result[i].confidence)]
                 /\ pc' = [pc EXCEPT ![i] = "validate"]
                 /\ UNCHANGED <<outcome, todo, result>>
            ELSE /\ AttemptFailed(i, calls[i] + 1, Error("JSONDecodeError", "Expecting value"))
                 /\ UNCHANGED validated_data
    /\ UNCHANGED <<files, max_workers, world, extracted_fields, warnings, fs, stats, image_path,
                   preprocessed_img, ocr_result, invoice, reg, results, returned>>

\* the except branch of the Pydantic validation: flag, note, validate again
Fallback(d) ==
    [d EXCEPT !.requires_manual_review = TRUE,
              !.validation_notes = <<ErrorNote(SchemaErrors(d))>>,
              !.absent = @ \ {"requires_manual_review", "validation_notes"},
              !.mistyped = @ \ {"requires_manual_review", "validation_notes"}]

\* InvoiceData.model_validate(validated_data), and on failure the fallback,
\* whose second model_validate runs the same schema (strict=False is the
\* default mode) and raises out of the function when it fails again
ValidateSchema(i) ==
    /\ pc[i] = "validate"
    /\ IF model_validate(validated_data[i]).ok
       THEN /\ invoice' = [invoice EXCEPT ![i] = model_validate(validated_data[i]).value]
            /\ pc' = [pc EXCEPT ![i] = "gate"]
            /\ UNCHANGED <<outcome, validated_data, todo, result>>
       ELSE /\ validated_data' = [validated_data EXCEPT ![i] = Fallback(@)]
            /\ IF model_validate(Fallback(validated_data[i])).ok
               THEN /\ invoice' = [invoice EXCEPT ![i] =
                           model_validate(Fallback(validated_data[i])).value]
                    /\ pc' = [pc EXCEPT ![i] = "gate"]
                    /\ UNCHANGED <<outcome, todo, result>>
               ELSE /\ AttemptFailed(i, calls[i], Error("ValidationError", "validation errors for InvoiceData"))
                    /\ UNCHANGED invoice
    /\ UNCHANGED <<files, max_workers, world, extracted_fields, warnings, fs, stats, image_path,
                   preprocessed_img, ocr_result, calls, reg, results, returned>>

\* invoice_data = self._apply_business_rules(invoice_data); return
ApplyBusinessRules(i) ==
    /\ pc[i] = "gate"
    /\ invoice' = [invoice EXCEPT ![i] =
           retry_result(apply_business_rules(@), calls[i])]
    /\ outcome' = [outcome EXCEPT ![i] =
           [attempt |-> calls[i], failed |-> FALSE, type |-> "", msg |-> "",
            upcoming_sleep |-> 0]]
    /\ pc' = [pc EXCEPT ![i] = "similarity"]
    /\ UNCHANGED <<files, max_workers, world, extracted_fields, warnings, fs, stats, image_path,
                   preprocessed_img, ocr_result, calls, validated_data, todo, reg,
                   result, results, returned>>

(***************************************************************************)
(* semantic_similarity_check and steps 6 and 7 of process_invoice          *)
(***************************************************************************)
\* min(max(x, 0.0), 1.0): max and min keep their first argument unless the
\* second compares greater (smaller), so a nan goes through
Clamp(x) ==
    IF x.k = "nan" THEN NaN
    ELSE IF FLt(x, 0) THEN Fin(0)
    ELSE IF FGt(x, 100) THEN Fin(100)
    ELSE x

\* float(content.strip()) clamped, 0.5 when float() or .strip() raises
similarity_score(reply) ==
    CASE reply.k = "number" -> Clamp(Fin(reply.v))
      [] reply.k = "nan" -> Clamp(NaN)
      [] OTHER -> Fin(SIMILARITY_DEFAULT)

\* a rule that flags every similarity that is not known to be >= 0.6
similarity_rule_unless_ge(inv, sim) ==
    IF ~FGe(sim, SIMILARITY_THRESHOLD)
    THEN Flagged(inv, "Bassa coerenza semantica", sim)
    ELSE inv

\* if similarity < 0.6: flag and note
similarity_rule(inv, sim) ==
    IF FLt(sim, SIMILARITY_THRESHOLD)
    THEN Flagged(inv, "Bassa coerenza semantica", sim)
    ELSE inv

SemanticSimilarityCheck(i) ==
    /\ pc[i] = "similarity"
    /\ \/ /\ Except(i, Error("APIConnectionError", "Connection error."))
          /\ UNCHANGED invoice
       \/ \E reply \in world.replies :
            /\ invoice' = [invoice EXCEPT ![i] =
                   similarity_rule(@, similarity_score(reply))]
            /\ result' = [result EXCEPT ![i] =
                   SuccessResult(similarity_rule(invoice[i], similarity_score(reply)),
                                 ocr_result[i].confidence, similarity_score(reply),
                                 files[i])]
            /\ todo' = [todo EXCEPT ![i] =
                   SuccessCounters(similarity_rule(invoice[i], similarity_score(reply)))]
            /\ pc' = [pc EXCEPT ![i] = "load"]
    /\ UNCHANGED <<files, max_workers, world, extracted_fields, warnings, fs, stats, image_path,
                   preprocessed_img, ocr_result, calls, outcome, validated_data, reg, results,
                   returned>>

\* self.stats[k] += 1, first half: read the entry
LoadCounter(i) ==
    /\ pc[i] = "load"
    /\ reg' = [reg EXCEPT ![i] = stats[Head(todo[i])]]
    /\ pc' = [pc EXCEPT ![i] = "store"]
    /\ UNCHANGED <<files, max_workers, world, extracted_fields, warnings, fs, stats, image_path,
                   preprocessed_img, ocr_result, calls, outcome, validated_data, invoice,
                   todo, result, results, returned>>

\* self.stats[k] += 1, second half: write the entry; after the last counter
\* process_invoice returns and the future is done
StoreCounter(i) ==
    /\ pc[i] = "store"
    /\ stats' = [stats EXCEPT ![Head(todo[i])] = reg[i] + 1]
    /\ todo' = [todo EXCEPT ![i] = Tail(@)]
    /\ pc' = [pc EXCEPT ![i] = IF Tail(todo[i]) = <<>> THEN "done" ELSE "load"]
    /\ UNCHANGED <<outcome, files, max_workers, world, extracted_fields, warnings, fs, image_path, preprocessed_img,
                   ocr_result, calls, validated_data, invoice, reg, result, results,
                   returned>>

(***************************************************************************)
(* process_batch: as_completed hands over the finished futures in the      *)
(* order they finish in; leaving the `with` block waits for all of them.   *)
(***************************************************************************)
\* a collection that keeps one result per file
CollectedByFile(rs, r) ==
    IF \E k \in 1..Len(rs) : rs[k].file_path = r.file_path THEN rs ELSE Append(rs, r)

\* results.append(future.result())
Collected(rs, r) == Append(rs, r)

Collect(i) ==
    /\ pc[i] = "done"
    /\ results' = Collected(results, result[i])
    /\ pc' = [pc EXCEPT ![i] = "collected"]
    /\ UNCHANGED <<files, max_workers, world, extracted_fields, warnings, fs, stats, image_path,
                   preprocessed_img, ocr_result, calls, outcome, validated_data, invoice,
                   todo, reg, result, returned>>

ReturnBatch ==
    /\ ~returned
    /\ \A i \in Tasks : pc[i] = "collected"
    /\ returned' = TRUE
    /\ UNCHANGED <<files, max_workers, world, extracted_fields, warnings, fs, stats, pc, image_path,
                   preprocessed_img, ocr_result, calls, outcome, validated_data, invoice,
                   todo, reg, result, results>>

Next ==
    \/ \E i \in Tasks : Start(i)
    \/ \E i \in Tasks : PrepareImage(i)
    \/ \E i \in Tasks : PreprocessInvoice(i)
    \/ \E i \in Tasks : ExtractText(i)
    \/ \E i \in Tasks : ExtractInvoiceFields(i)
    \/ \E i \in Tasks : CallCollaborator(i)
    \/ \E i \in Tasks : ValidateSchema(i)
    \/ \E i \in Tasks : ApplyBusinessRules(i)
    \/ \E i \in Tasks : SemanticSimilarityCheck(i)
    \/ \E i \in Tasks : LoadCounter(i)
    \/ \E i \in Tasks : StoreCounter(i)
    \/ \E i \in Tasks : Collect(i)
    \/ ReturnBatch

Spec == Init /\ [][Next]_vars

SpecPipeline == InitPipeline /\ [][Next]_vars

SpecFields == InitFields /\ [][Next]_vars

\* the threads of the pool and the collecting loop run whenever they can
SpecTimeout == InitTimeout /\ [][Next]_vars /\ WF_vars(Next)

(***************************************************************************)
(* Properties.                                                             *)
(***************************************************************************)
Finished(i) == pc[i] \in {"done", "collected"}
Succeeded(i) == result[i].status = "success"
Failed(i) == result[i].status = "error"

CountFiles(p) == Cardinality({ i \in Tasks : files[i] = p })
CountResults(p) == Cardinality({ k \in 1..Len(results) : results[k].file_path = p })

Abs(n) == IF n < 0 THEN -n ELSE n
IsPrefix(s, t) == Len(s) <= Len(t) /\ SubSeq(t, 1, Len(s)) = s

\* C1: process_batch returns exactly one result per input path, duplicates
\* counted: N results, and each path is carried by as many results as the
\* input names it, whatever the completion order and whichever documents fail.
C1_EveryPathReported ==
    returned =>
        /\ Len(results) = Len(files)
        /\ \A p \in Paths : CountResults(p) = CountFiles(p)

\* the same path twice, one copy failed and collected first, the other succeeded
C1_Witness ==
    /\ returned
    /\ Len(files) = 2 /\ files[1] = files[2]
    /\ results[1].status = "error" /\ results[2].status = "success"

\* C2: a document whose stage raised is reported as Failed with its own
\* path, and every other document's result is the one it would have had
\* alone: it was built from the text of its own file.
C2_FailureIsolated ==
    \A i \in Tasks :
        (Finished(i) /\ Failed(i)) =>
            /\ result[i].file_path = files[i]
            /\ \A j \in Tasks \ {i} :
                   (Finished(j) /\ Succeeded(j)) => ocr_result[j].text = files[j]

\* C3: no increment of the counters is lost: once the batch has returned,
\* processed equals the number of documents.
C3_NoLostIncrement ==
    returned => stats.processed = Len(files)

\* the value requires_manual_review has for task i at this point of its run
ReviewFlag(i) ==
    CASE pc[i] \in {"call", "validate"} ->
             /\ validated_data[i].json
             /\ "requires_manual_review" \notin
                    (validated_data[i].absent \cup validated_data[i].mistyped)
             /\ validated_data[i].requires_manual_review
      [] pc[i] \in {"gate", "similarity"} -> invoice[i].requires_manual_review
      [] pc[i] \in {"load", "store", "done", "collected"} ->
             Succeeded(i) /\ result[i].requires_manual_review
      [] OTHER -> FALSE

\* C4: requires_manual_review is monotonic within the run of a document:
\* once it is true, no later step of a run that ends in a result with a
\* flag makes it false.
C4_FlagNeverCleared ==
    [][\A i \in Tasks :
          (ReviewFlag(i) /\ result'[i].status # "error") => ReviewFlag(i)']_vars

\* C5: a Success result whose record is not flagged for review has finite
\* amounts with |vat_amount - subtotal*vat_rate| <= 0.01 and
\* |total_amount - (subtotal + vat_amount)| <= 0.01, subtotal > 0,
\* total_amount > 0, and both VAT ids of exactly 11 digits.
C5_UnflaggedRecordIsSound ==
    \A i \in Tasks :
        (Succeeded(i) /\ ~result[i].invoice_data.requires_manual_review) =>
            LET r == result[i].invoice_data IN
            /\ r.subtotal.k = "fin" /\ r.vat_rate.k = "fin"
            /\ r.vat_amount.k = "fin" /\ r.total_amount.k = "fin"
            /\ Abs(100 * r.vat_amount.v - r.subtotal.v * r.vat_rate.v) <= 100
            /\ Abs(r.total_amount.v - (r.subtotal.v + r.vat_amount.v)) <= 1
            /\ r.subtotal.v > 0 /\ r.total_amount.v > 0
            /\ Len(r.supplier_vat) = 11 /\ Len(r.customer_vat) = 11
            /\ \A k \in 1..11 : r.supplier_vat[k] \in Digits /\ r.customer_vat[k] \in Digits

\* an unflagged Success whose total is one cent away from subtotal + vat_amount
C5_Witness ==
    \E i \in Tasks :
        /\ Finished(i) /\ Succeeded(i)
        /\ ~result[i].invoice_data.requires_manual_review
        /\ result[i].invoice_data.total_amount = Fin(122001)

\* C6: when the decoded response fails the schema, validate does not raise:
\* it goes on with a record flagged for review whose notes contain the text
\* of the validation error.
C6_SchemaFailureFallsBack ==
    [][\A i \in Tasks :
          (pc[i] = "validate" /\ SchemaErrors(validated_data[i]) # <<>>) =>
              /\ pc'[i] = "gate"
              /\ invoice'[i].requires_manual_review
              /\ \E k \in 1..Len(invoice'[i].validation_notes) :
                     invoice'[i].validation_notes[k] =
                         ErrorNote(SchemaErrors(validated_data[i]))]_vars

\* C7: the collaborator is called again only after a transient call failure:
\* whenever a further call is about to be made, the attempt before it failed
\* with a connection error, not with a malformed or invalid response.
C7_RetryOnlyAfterTransientFailure ==
    \A i \in Tasks :
        (pc[i] = "call" /\ calls[i] >= 1) => outcome[i].type = "APIConnectionError"

\* C8: one validate makes at most 3 collaborator calls, and a third attempt
\* that fails transiently makes process_invoice return a Failed result with
\* the document's path, which process_batch collects.
C8_ThreeAttemptsThenFailed ==
    \A i \in Tasks :
        /\ calls[i] <= 3
        /\ (outcome[i].failed /\ outcome[i].attempt = 3
                /\ outcome[i].type = "APIConnectionError") =>
               /\ pc[i] \in {"load", "store", "done", "collected"}
               /\ Failed(i)
               /\ result[i].file_path = files[i]
               /\ result[i].error.type = "RetryError"
        /\ pc[i] = "collected" => \E k \in 1..Len(results) : results[k] = result[i]

\* the batch has returned with a document whose third call failed transiently
C8_Witness ==
    /\ returned
    /\ \E i \in Tasks :
           /\ calls[i] = 3 /\ outcome[i].failed
           /\ outcome[i].type = "APIConnectionError"
           /\ \E k \in 1..Len(results) :
                  results[k].status = "error" /\ results[k].file_path = files[i]

\* C9: a document structured at the third attempt has the same record, flag
\* and notes included, as a document that got the same valid response, the
\* same OCR confidence and the same similarity at the first attempt.
C9_RetriesLeaveNoTrace ==
    \A i, j \in Tasks :
        ( /\ Finished(i) /\ Succeeded(i) /\ calls[i] = 1
          /\ Finished(j) /\ Succeeded(j) /\ calls[j] = 3
          /\ validated_data[i] = validated_data[j]
          /\ model_validate(validated_data[j]).ok
          /\ result[i].semantic_similarity = result[j].semantic_similarity ) =>
            /\ result[i].invoice_data = result[j].invoice_data
            /\ result[i].requires_manual_review = result[j].requires_manual_review

\* two documents with the same valid response, one at the first attempt, one
\* at the third
C9_Witness ==
    \E i, j \in Tasks :
        /\ Finished(i) /\ Succeeded(i) /\ calls[i] = 1
        /\ Finished(j) /\ Succeeded(j) /\ calls[j] = 3
        /\ validated_data[i] = validated_data[j]
        /\ model_validate(validated_data[j]).ok
        /\ ~result[j].requires_manual_review

\* the record without its flag and its notes
Frame(inv) == [inv EXCEPT !.requires_manual_review = FALSE, !.validation_notes = <<>>]

\* C10: the business-rule gate never clears the flag, keeps the notes it was
\* given as a prefix of the notes it returns, and changes no other field.
C10_GateOnlyAdds ==
    [][\A i \in Tasks :
          (pc[i] = "gate" /\ pc'[i] = "similarity") =>
              /\ invoice[i].requires_manual_review => invoice'[i].requires_manual_review
              /\ IsPrefix(invoice[i].validation_notes, invoice'[i].validation_notes)
              /\ Frame(invoice'[i]) = Frame(invoice[i])]_vars

\* the gate has run on a record that came flagged and with a note, and has
\* added a note of its own
C10_Witness ==
    \E i \in Tasks :
        /\ pc[i] = "similarity"
        /\ validated_data[i].validation_notes = <<AiNote>>
        /\ model_validate(validated_data[i]).ok
        /\ model_validate(validated_data[i]).value.requires_manual_review
        /\ invoice[i].requires_manual_review
        /\ invoice[i].validation_notes =
               <<AiNote, Note("Confidence OCR bassa", Fin(50))>>

\* the notes the gate or the orchestrator appended to the notes `before`
Appended(before, after) == SubSeq(after, Len(before) + 1, Len(after))

\* how many of the notes carry the wording msg
Said(notes, msg) == Cardinality({ k \in 1..Len(notes) : notes[k].msg = msg })

\* C11: after the gate the flag is the input flag OR total > auto-approve
\* threshold OR total > maximum OR OCR confidence < threshold OR AI score <
\* 0.7, and the gate appends exactly one note per check that fired and none
\* for a check that did not.
C11_GateFlagsAndNotes ==
    [][\A i \in Tasks :
          (pc[i] = "gate" /\ pc'[i] = "similarity") =>
              LET a == invoice[i]
                  b == invoice'[i]
                  new == Appended(a.validation_notes, b.validation_notes)
                  auto == FGt(a.total_amount, AUTO_APPROVE_THRESHOLD)
                  max == FGt(a.total_amount, MAX_INVOICE_AMOUNT)
                  ocr == FLt(a.ocr_confidence, OCR_CONFIDENCE_THRESHOLD)
                  ai == FLt(a.ai_validation_score, AI_SCORE_THRESHOLD)
                  One(fired) == IF fired THEN 1 ELSE 0
              IN /\ b.requires_manual_review =
                        (a.requires_manual_review \/ auto \/ max \/ ocr \/ ai)
                 /\ Said(new, "supera soglia auto-approvazione") = One(auto)
                 /\ Said(new, "supera limite massimo") = One(max)
                 /\ Said(new, "Confidence OCR bassa") = One(ocr)
                 /\ Said(new, "Confidence AI bassa") = One(ai)
                 /\ Len(new) = One(auto) + One(max) + One(ocr) + One(ai)]_vars

\* a total over the auto-approve threshold with healthy other signals has
\* left the gate flagged, with the auto-approve note and no other
C11_Witness ==
    \E i \in Tasks :
        /\ pc[i] = "similarity"
        /\ validated_data[i] = Stamp(RBig, Fin(85))
        /\ invoice[i].requires_manual_review
        /\ invoice[i].validation_notes =
               <<Note("supera soglia auto-approvazione", Fin(610000))>>

\* C12: after the gate, the orchestrator flags the record and appends one
\* semantic-coherence note as the last note exactly when the similarity is
\* < 0.6; otherwise flag and notes stay as the gate produced them.
C12_SimilarityFlagsBelowThreshold ==
    [][\A i \in Tasks :
          (pc[i] = "similarity" /\ pc'[i] = "load" /\ result'[i].status = "success") =>
              LET a == invoice[i]
                  b == result'[i].invoice_data
                  sim == result'[i].semantic_similarity
              IN IF sim.k = "fin" /\ sim.v < SIMILARITY_THRESHOLD
                 THEN /\ b.requires_manual_review
                      /\ b.validation_notes =
                             Append(a.validation_notes,
                                    Note("Bassa coerenza semantica", sim))
                      /\ Frame(b) = Frame(a)
                 ELSE b = a]_vars

\* a record the gate flagged for its OCR confidence got the coherence note
\* for a similarity of 0.3 as its last note
C12_Witness ==
    \E i \in Tasks :
        /\ Finished(i) /\ Succeeded(i)
        /\ result[i].semantic_similarity = Fin(30)
        /\ result[i].invoice_data.validation_notes =
               <<Note("Confidence OCR bassa", Fin(50)),
                 Note("Bassa coerenza semantica", Fin(30))>>

\* C13: a per-document timeout bounds each document: when an external call
\* of a document never returns, that document is eventually reported as
\* Failed and process_batch eventually returns.
C13_HungCallTimesOut ==
    /\ \A i \in 1..MaxDocs :
           (i \in Tasks /\ pc[i] = "blocked") ~> (i \in Tasks /\ Failed(i))
    /\ (\E i \in Tasks : pc[i] = "blocked") ~> returned

\* C14: every document's intermediate files are its task's own: no input
\* document is overwritten, the rendered page a task is about to read is the
\* page of its own document, the image it preprocessed is its own, and the
\* preprocessed file it wrote still holds its own document.
C14_ArtifactsOwnedByTask ==
    \A i \in Tasks :
        /\ fs[files[i]] = Content(files[i], "original")
        /\ pc[i] = "normalize" => fs[image_path[i]].doc = files[i]
        /\ preprocessed_img[i] # NoFile =>
               /\ preprocessed_img[i].doc = files[i]
               /\ fs[PreprocessedPath(files[i])].doc = files[i]

\* C15: a document whose stages all completed is a Success whether or not
\* it needs review: a result is Failed only with the exception of a stage,
\* and the flag at the top of a Success result is the flag of its record.
C15_ReviewIsStillSuccess ==
    \A i \in Tasks :
        /\ Failed(i) =>
               result[i].error.type \in
                   {"PDFPageCountError", "ValueError", "TesseractError",
                    "RetryError", "APIConnectionError"}
        /\ Succeeded(i) =>
               /\ result[i].requires_manual_review =
                      result[i].invoice_data.requires_manual_review
               /\ result[i].invoice_data = invoice[i]

\* a document flagged for review, reported as Success with the flag set
C15_Witness ==
    \E i \in Tasks :
        /\ pc[i] = "collected" /\ Succeeded(i)
        /\ result[i].requires_manual_review
        /\ result[i].invoice_data.requires_manual_review
        /\ \E k \in 1..Len(results) : results[k] = result[i]

\* C16: each document adds 1 to processed and 1 to exactly one of
\* successful, manual_review, failed: whenever no worker is running,
\* processed = successful + manual_review + failed.
C16_CountersAddUp ==
    Running = {} =>
        stats.processed = stats.successful + stats.manual_review + stats.failed

\* the value the patterns captured for a field type, before post-processing
Captured(i, field_type) == ExtractedFields(ocr_result[i].chars)[field_type].value

\* C17: for every OCR text the extracted mapping has no VAT field, or a VAT
\* field whose value is exactly 11 characters, all of them digits.
C17_VatFieldIsElevenDigits ==
    \A i \in Tasks :
        "vat_number" \in DOMAIN extracted_fields[i] =>
            /\ Len(extracted_fields[i]["vat_number"].value) = 11
            /\ \A k \in 1..11 : extracted_fields[i]["vat_number"].value[k] \in Digits

\* a keyword followed by 12 digits gave a VAT field of the first 11
C17_Witness ==
    \E i \in Tasks :
        /\ pc[i] = "call"
        /\ ocr_result[i].chars = <<KwVat, ":", " ">> \o NDigits(12)
        /\ "vat_number" \in DOMAIN extracted_fields[i]
        /\ extracted_fields[i]["vat_number"].value = NDigits(11)

\* C18: a matched date that one of the formats D/M/Y, D-M-Y, D.M.Y, Y-M-D,
\* D/M/YY parses is output as YYYY-MM-DD ("31/12/2024" gives "2024-12-31");
\* one that no format parses keeps its value and is marked as unparsed, by
\* an attribute of the field or by a logged warning.
C18_UnparsedDateIsMarked ==
    \A i \in Tasks :
        "date" \in DOMAIN extracted_fields[i] =>
            LET date == extracted_fields[i]["date"]
            IN /\ Captured(i, "date") = DateItalian => date.value = DateIso
               /\ \/ IsIsoDate(date.value)
                  \/ /\ date.value = Captured(i, "date")
                     /\ \/ "unparsed" \in DOMAIN date
                        \/ \E k \in 1..Len(warnings[i]) :
                               warnings[i][k].value = date.value

\* the digits of a decimal string before and after its dot
WholePart(s) == SubSeq(s, 1, Len(s) - 3)
Decimals(s) == SubSeq(s, Len(s) - 1, Len(s))

\* digits, a dot, two digits
IsFixedPoint2(s) ==
    /\ Len(s) >= 4
    /\ s[Len(s) - 2] = "."
    /\ \A k \in (1..Len(s)) \ {Len(s) - 2} : s[k] \in Digits

\* the amount as the claim reads it: dots dropped, then the comma as the
\* decimal point; its digits before and after the comma
Undotted(raw) == SelectSeq(raw, LAMBDA c : c # ".")
Commas(raw) == { k \in 1..Len(Undotted(raw)) : Undotted(raw)[k] = "," }
IsNumber(raw) == Cardinality(Commas(raw)) <= 1 /\ Len(Undotted(raw)) > Cardinality(Commas(raw))
CommaAt(raw) ==
    IF Commas(raw) = {} THEN Len(Undotted(raw)) + 1 ELSE CHOOSE k \in Commas(raw) : TRUE
Euros(raw) == SubSeq(Undotted(raw), 1, CommaAt(raw) - 1)
Fraction(raw) == SubSeq(Undotted(raw), CommaAt(raw) + 1, Len(Undotted(raw)))

\* C19: the amount is the matched string without its dots and with the
\* comma as decimal point, written with exactly 2 decimals and rounded to
\* the nearest cent ("1.234,56" gives "1234.56", "100" gives "100.00");
\* when that string is not a number the matched string is kept unchanged.
C19_AmountIsFixedPoint ==
    \A i \in Tasks :
        "amount" \in DOMAIN extracted_fields[i] =>
            LET raw == Captured(i, "amount")
                value == extracted_fields[i]["amount"].value
                places == IF Len(Fraction(raw)) > 2 THEN Len(Fraction(raw)) ELSE 2
                exact == StrToInt(Euros(raw)) * 10 ^ places
                           + StrToInt(Fraction(raw)) * 10 ^ (places - Len(Fraction(raw)))
                shown == (StrToInt(WholePart(value)) * 100 + StrToInt(Decimals(value)))
                           * 10 ^ (places - 2)
            IN /\ IF IsNumber(raw)
                  THEN /\ IsFixedPoint2(value)
                       /\ 2 * Abs(shown - exact) <= 10 ^ (places - 2)
                  ELSE value = raw
               /\ raw = <<"1", ".", "2", "3", "4", ",", "5", "6">> =>
                      value = <<"1", "2", "3", "4", ".", "5", "6">>
               /\ raw = <<"1", "0", "0">> => value = <<"1", "0", "0", ".", "0", "0">>
               /\ raw = <<"1", ",", "2", ",", "3">> => value = raw

\* "1.234,56" after a keyword and a euro sign was normalized to "1234.56"
C19_Witness ==
    \E i \in Tasks :
        /\ pc[i] = "call"
        /\ "amount" \in DOMAIN extracted_fields[i]
        /\ ocr_result[i].chars[1] = KwNetAmount
        /\ Captured(i, "amount") = <<"1", ".", "2", "3", "4", ",", "5", "6">>
        /\ extracted_fields[i]["amount"].value = <<"1", "2", "3", "4", ".", "5", "6">>

\* C20: the backoff starts at 2 seconds, doubles with each further failed
\* attempt and is capped at 10 seconds: before the call that follows the
\* k-th failed attempt the wait is min(2 * 2^(k-1), 10) seconds, 2 s and
\* then 4 s.
C20_BackoffDoubles ==
    \A i \in Tasks :
        (pc[i] = "call" /\ outcome[i].failed) =>
            LET doubled == 2 * 2 ^ (outcome[i].attempt - 1)
            IN outcome[i].upcoming_sleep = IF doubled < 10 THEN doubled ELSE 10

\* the notes of the document of task i, where it has some: the list of the
\* decoded dict, of the InvoiceData object, of the record in the result
NotesOf(i) ==
    CASE pc[i] = "validate" ->
             IF "validation_notes" \in (validated_data[i].absent \cup validated_data[i].mistyped)
             THEN <<>> ELSE validated_data[i].validation_notes
      [] pc[i] \in {"gate", "similarity"} -> invoice[i].validation_notes
      [] pc[i] \in {"load", "store", "done", "collected"} /\ Succeeded(i) ->
             result[i].invoice_data.validation_notes
      [] OTHER -> <<>>

\* C21: validation_notes is append-only over a pipeline run: over the schema
\* validation with its fallback, over each check of the gate and over the
\* similarity check the notes before the step are a prefix of the notes
\* after it; after the fallback the notes of the collaborator are still
\* there, before the text of the validation error.
C21_NotesAppendOnly ==
    [][\A i \in Tasks :
          /\ ( /\ pc[i] \in {"validate", "gate", "similarity"}
               /\ pc'[i] \in {"gate", "similarity", "load"}
               /\ result'[i].status # "error" ) =>
                 IsPrefix(NotesOf(i), NotesOf(i)')
          /\ (pc[i] = "validate" /\ pc'[i] = "gate"
                 /\ SchemaErrors(validated_data[i]) # <<>>) =>
                 invoice'[i].validation_notes =
                     Append(NotesOf(i), ErrorNote(SchemaErrors(validated_data[i])))
          /\ pc[i] = "gate" =>
                 LET a == auto_approve_rule(invoice[i])
                     b == max_amount_rule(a)
                     c == ocr_confidence_rule(b)
                     d == ai_confidence_rule(c)
                 IN /\ IsPrefix(invoice[i].validation_notes, a.validation_notes)
                    /\ IsPrefix(a.validation_notes, b.validation_notes)
                    /\ IsPrefix(b.validation_notes, c.validation_notes)
                    /\ IsPrefix(c.validation_notes, d.validation_notes)]_vars

\* C22: the record validate returns has the ocr_confidence that was passed
\* in, whatever the response says for that field, and as ai_validation_score
\* the confidence score the response reports, 0.9 when it reports none.
C22_RecordIsStamped ==
    \A i \in Tasks :
        pc[i] = "similarity" =>
            /\ invoice[i].ocr_confidence = ocr_result[i].confidence
            /\ invoice[i].ai_validation_score =
                   IF "confidence_score" \in validated_data[i].absent
                   THEN Fin(90) ELSE validated_data[i].confidence_score

\* validate has returned a record for an OCR confidence of 50 and a response
\* that says 99 for ocr_confidence and for ai_validation_score, as every
\* response of the model that has these fields does, and reports a
\* confidence score of 0.95
C22_Witness ==
    \E i \in Tasks :
        /\ pc[i] = "similarity"
        /\ \E r \in world.responses :
               /\ r.absent = {} /\ r.mistyped = {}
               /\ r.ocr_confidence = Fin(99) /\ r.ai_validation_score = Fin(99)
               /\ validated_data[i] = Stamp(r, Fin(50))
        /\ validated_data[i].confidence_score = Fin(95)
        /\ invoice[i].ocr_confidence = Fin(50)
        /\ invoice[i].ai_validation_score = Fin(95)

\* C23: for every reply of the collaborator semantic_similarity_check
\* returns a value in [0, 1]: the similarity of every Success result is a
\* number from 0 to 1, and it is 0.5 unless the reply was read as a number.
C23_SimilarityInUnitInterval ==
    \A i \in Tasks :
        Succeeded(i) =>
            /\ result[i].semantic_similarity.k = "fin"
            /\ result[i].semantic_similarity.v >= 0
            /\ result[i].semantic_similarity.v <= 100
            /\ \E reply \in world.replies :
                   /\ result[i].semantic_similarity = similarity_score(reply)
                   /\ reply.k = "text" =>
                          result[i].semantic_similarity = Fin(SIMILARITY_DEFAULT)

\* the stage of process_invoice a position belongs to: 1 format conversion,
\* 2 normalization, 3 OCR, 4 field extraction, 5 structuring with its
\* retries and the gate, 6 similarity check; 0 outside the stages
StageNo(p) ==
    CASE p = "prepare" -> 1
      [] p = "normalize" -> 2
      [] p = "ocr" -> 3
      [] p = "extract" -> 4
      [] p \in {"call", "validate", "gate"} -> 5
      [] p = "similarity" -> 6
      [] OTHER -> 0

\* C24: the stages of a document run in the order format conversion,
\* normalization, OCR, field extraction, structuring, similarity check, each
\* one after the one before it has completed; once a stage has failed no
\* later stage runs, and the structuring collaborator is never called for a
\* document whose conversion, normalization or OCR failed.
C24_StagesInOrder ==
    [][\A i \in Tasks :
          /\ pc'[i] # pc[i] =>
                \/ pc[i] = "queued" /\ pc'[i] = "prepare"
                \/ /\ StageNo(pc[i]) > 0 /\ StageNo(pc'[i]) > 0
                   /\ StageNo(pc'[i]) \in {StageNo(pc[i]), StageNo(pc[i]) + 1}
                   /\ result'[i] = NoResult
                \/ /\ StageNo(pc[i]) \in 1..5 /\ pc'[i] = "load" /\ Failed(i)'
                \/ StageNo(pc[i]) = 6 /\ pc'[i] = "load"
                \/ StageNo(pc[i]) = 0 /\ StageNo(pc'[i]) = 0 /\ pc[i] # "queued"
          /\ Failed(i) => /\ StageNo(pc'[i]) = 0
                          /\ calls'[i] = calls[i]
                          /\ ocr_result'[i] = ocr_result[i]
                          /\ invoice'[i] = invoice[i]
          /\ ( /\ Failed(i)'
               /\ result'[i].error.type \in
                      {"PDFPageCountError", "ValueError", "TesseractError"} ) =>
                 calls'[i] = 0 /\ validated_data'[i] = NoData]_vars

\* the batch has returned the Failed result of a document whose image could
\* not be loaded: no OCR, no collaborator call
C24_Witness ==
    /\ returned
    /\ \E i \in Tasks :
           /\ Failed(i) /\ result[i].error.type = "ValueError"
           /\ ocr_result[i] = NoOcr /\ calls[i] = 0

\* C25: for an OCR text that is one date written YYYY-MM-DD,
\* extract_invoice_fields returns a date field whose value is that date: the
\* ordered patterns do not capture a truncated part of it.
C25_IsoDateIsKept ==
    \A i \in Tasks :
        ( /\ ocr_result[i] # NoOcr /\ pc[i] # "extract"
          /\ IsIsoDate(ocr_result[i].chars)
          /\ strptime(ocr_result[i].chars, DateFormats[4]).ok ) =>
            /\ "date" \in DOMAIN extracted_fields[i]
            /\ extracted_fields[i]["date"].value = ocr_result[i].chars

\* the similarity of task i's result is the one an unparsable reply gives,
\* and no other reply the collaborator can give has that score
Unparsed(i) ==
    /\ Succeeded(i)
    /\ SimText \in world.replies
    /\ result[i].semantic_similarity = similarity_score(SimText)
    /\ \A reply \in world.replies :
           similarity_score(reply) = similarity_score(SimText) => reply = SimText

\* C26: an unparsable similarity reply is never a silent success: the
\* result of the document is a Success flagged for review whose last note is
\* the semantic-coherence note, and the document is counted in
\* manual_review and not in successful.
C26_UnparsedSimilarityIsReviewed ==
    \A i \in Tasks :
        (pc[i] \in {"load", "store", "done", "collected"} /\ Unparsed(i)) =>
            LET notes == result[i].invoice_data.validation_notes IN
            /\ result[i].requires_manual_review
            /\ result[i].invoice_data.requires_manual_review
            /\ notes # <<>>
            /\ notes[Len(notes)] =
                   Note("Bassa coerenza semantica", Fin(SIMILARITY_DEFAULT))
            /\ pc[i] = "load" => \/ todo[i] = <<"processed", "manual_review">>
                                 \/ todo[i] = <<"manual_review">>
            /\ (Finished(i) /\ Len(files) = 1) =>
                   stats = [processed |-> 1, successful |-> 0, failed |-> 0,
                            manual_review |-> 1]

\* the batch has returned a document whose record the gate had left
\* unflagged and whose similarity reply could not be parsed
C26_Witness ==
    /\ returned
    /\ \E i \in Tasks :
           /\ Unparsed(i)
           /\ result[i].invoice_data.validation_notes =
                  <<Note("Bassa coerenza semantica", Fin(50))>>
           /\ stats.manual_review = 1

\* C27: the similarity call is made once and is not retried: when it fails
\* with a transient service error after the structuring has succeeded, the
\* result of the document is Failed, without the structured record, and the
\* document is counted in failed, with processed incremented exactly once.
C27_SimilarityFailureIsFinal ==
    [][\A i \in Tasks :
          /\ (pc[i] = "similarity" /\ pc'[i] # pc[i]) => pc'[i] = "load"
          /\ pc'[i] = "similarity" => pc[i] \in {"gate", "similarity"}
          /\ (pc[i] = "similarity" /\ Failed(i)') =>
                 /\ result'[i] =
                        ErrorResult(Error("APIConnectionError", "Connection error."),
                                    files[i])
                 /\ "invoice_data" \notin DOMAIN result'[i]
                 /\ todo'[i] = <<"processed", "failed">>
          /\ ( /\ Failed(i)' /\ result'[i].error.type = "APIConnectionError"
               /\ Finished(i)' /\ Len(files) = 1 ) =>
                 stats' = [processed |-> 1, successful |-> 0, failed |-> 1,
                           manual_review |-> 0]]_vars

\* the batch has returned the Failed result of a document that was
\* structured at the first attempt and whose similarity call failed
C27_Witness ==
    /\ returned
    /\ \E i \in Tasks :
           /\ Failed(i) /\ result[i].error.type = "APIConnectionError"
           /\ calls[i] = 1 /\ ~outcome[i].failed
           /\ invoice[i] = apply_business_rules(model_validate(validated_data[i]).value)
           /\ stats.processed = 1 /\ stats.failed = 1

====
